---- MODULE Spec2Model ----
(***************************************************************************)
(* Stock21: the inventory movement engine (movements/services.py) over    *)
(* the stock ledger (stock/models.py, movements/models.py).               *)
(*                                                                         *)
(* Decimal values are represented as integers counting thousandths:       *)
(* 1 is written 1000, 0.5 is 500, 2.50 is 2500.  A product of two         *)
(* decimals is therefore (a * b) \div 1000.  The inputs enumerated below   *)
(* are all exactly representable with three fractional digits, before and *)
(* after unit conversion, so no rounding happens inside the model.        *)
(*                                                                         *)
(* Strings that are parsed are sequences of one-character strings.        *)
(***************************************************************************)
EXTENDS Integers, Sequences, FiniteSets, TLC

VARIABLES
    ingredients,   \* Ingredient table: id -> [name, measure, qte]
    products,      \* Product table: id -> [name, price, recipe]
    categories,    \* Category table: id -> [name]
    movements,     \* Movement table, rows in creation order
    inflows,       \* MovementInflow table, rows in creation order
    outflows,      \* MovementOutflow table, rows in creation order
    nextId,        \* next primary key of the Movement table
    calls,         \* requests handled so far
    last,          \* the last finished call: its input, outcome and pre-state
    tx,            \* the open transactions of the interleaved specification
    call           \* a call of one of the pure functions: arguments and result

vars == <<ingredients, products, categories, movements, inflows, outflows, nextId,
          calls, last, tx, call>>

(***************************************************************************)
(* Bounds of the model.                                                    *)
(***************************************************************************)
\* requests handled in one behaviour
MaxCalls == 2
\* selections in one request
MaxSel == 2
\* characters of a string handed to the parser on its own
MaxLen == 3
\* largest whole quantity handed to the converter on its own
MaxWhole == 10

(***************************************************************************)
(* Small helpers.                                                          *)
(***************************************************************************)
Range(s) == {s[i] : i \in 1..Len(s)}

SeqsUpTo(S, n) == UNION {[1..k -> S] : k \in 0..n}

RECURSIVE SumSeq(_)
SumSeq(s) == IF s = <<>> THEN 0 ELSE s[1] + SumSeq(Tail(s))

\* Decimal * Decimal on the thousandths representation
Mul(a, b) == (a * b) \div 1000

(***************************************************************************)
(* decimal.Decimal(str) for plain signed decimal literals, and the         *)
(* special values the constructor also accepts.                            *)
(***************************************************************************)
DigitChars == <<"0", "1", "2", "3", "4", "5", "6", "7", "8", "9">>

IsDigit(c) == \E i \in 1..10 : DigitChars[i] = c

DigitVal(c) == (CHOOSE i \in 1..10 : DigitChars[i] = c) - 1

RECURSIVE NatOf(_)
NatOf(ds) ==
    IF ds = <<>> THEN 0
    ELSE NatOf(SubSeq(ds, 1, Len(ds) - 1)) * 10 + DigitVal(ds[Len(ds)])

\* the first three fractional digits, as thousandths
FracOf(ds) ==
    LET d(i) == IF i <= Len(ds) THEN DigitVal(ds[i]) ELSE 0
    IN  d(1) * 100 + d(2) * 10 + d(3)

SpecialLiterals ==
    { <<"N","a","N">>, <<"n","a","n">>,
      <<"I","n","f">>, <<"i","n","f">>,
      <<"I","n","f","i","n","i","t","y">> }

IsNaNLiteral(s) == s \in { <<"N","a","N">>, <<"n","a","n">> }

\* [kind |-> "invalid"]  : InvalidOperation
\* [kind |-> "nan"], [kind |-> "inf", sign]  : special values
\* [kind |-> "num", n]   : a finite number, n in thousandths
DecimalOf(s) ==
    LET signed == s # <<>> /\ s[1] \in {"+", "-"}
        sign   == IF signed /\ s[1] = "-" THEN -1 ELSE 1
        body   == IF signed THEN Tail(s) ELSE s
        dots   == {i \in 1..Len(body) : body[i] = "."}
        dot    == IF dots = {} THEN Len(body) + 1 ELSE CHOOSE i \in dots : TRUE
        ip     == SubSeq(body, 1, dot - 1)
        fp     == SubSeq(body, dot + 1, Len(body))
    IN  IF body \in SpecialLiterals
          THEN IF IsNaNLiteral(body)
                 THEN [kind |-> "nan", n |-> 0]
                 ELSE [kind |-> "inf", n |-> sign]
        ELSE IF /\ Cardinality(dots) <= 1
                /\ Len(ip) + Len(fp) >= 1
                /\ \A i \in 1..Len(ip) : IsDigit(ip[i])
                /\ \A i \in 1..Len(fp) : IsDigit(fp[i])
          THEN [kind |-> "num", n |-> sign * (NatOf(ip) * 1000 + FracOf(fp))]
        ELSE [kind |-> "invalid", n |-> 0]

\* str.replace(".", "").replace(",", ".")
CleanBr(value) ==
    LET nodots == SelectSeq(value, LAMBDA c : c # ".")
    IN  [i \in 1..Len(nodots) |-> IF nodots[i] = "," THEN "." ELSE nodots[i]]

(***************************************************************************)
(* The numbers typed into the forms.                                       *)
(***************************************************************************)
\* "abc", "0", "1", "2", "1,5": sold quantities
RawSold == { <<"a","b","c">>, <<"0">>, <<"1">>, <<"2">>, <<"1",",","5">> }

\* (quantity, price, measure) as typed into one inflow line:
\* 500 g for 2,50; 1 kg for 1.000,00; an unreadable quantity; a quantity of 0
\* with an unreadable price; a price of 0; 1 unit for 2,50
InflowLinesTyped ==
    { << <<"5","0","0">>, <<"2",",","5","0">>, "g" >>,
      << <<"1">>, <<"1",".","0","0","0",",","0","0">>, "kg" >>,
      << <<"a","b","c">>, <<"2",",","5","0">>, "kg" >>,
      << <<"0">>, <<"a","b","c">>, "g" >>,
      << <<"1">>, <<"0">>, "unit" >>,
      << <<"1">>, <<"2",",","5","0">>, "unit" >> }

\* an absent field: request.POST.get(...) gave None
NoneValue == <<"None">>

ParseAlphabet == {"0", "1", ",", ".", "-", "a"}

\* "1.234,56", "-5,00", "abc", "NaN", "N.a.N", "Infinity", "-Infinity", "inf"
ParseExamples ==
    { <<"1",".","2","3","4",",","5","6">>, <<"-","5",",","0","0">>, <<"a","b","c">>,
      <<"N","a","N">>, <<"N",".","a",".","N">>, <<"I","n","f","i","n","i","t","y">>,
      <<"-","I","n","f","i","n","i","t","y">>, <<"i","n","f">> }

\* what parse_value_br is called with on its own: every string of up to
\* MaxLen characters of the alphabet, the examples, and an absent value
ParseInputs ==
    UNION {[1..k -> ParseAlphabet] : k \in 0..MaxLen} \cup ParseExamples \cup {NoneValue}

\* every string the requests hand to the parser
RawStrings ==
    RawSold \cup UNION { {typed[1], typed[2]} : typed \in InflowLinesTyped } \cup ParseInputs

\* Decimal(value.replace('.', '').replace(',', '.')) of each of those strings,
\* evaluated once; parse_value_br reads its argument's entry.  None has no
\* replace method: AttributeError, caught like InvalidOperation (line 90)
DecimalTable ==
    [raw \in RawStrings |->
        IF raw = NoneValue THEN [kind |-> "invalid", n |-> 0]
        ELSE DecimalOf(CleanBr(raw))]

(***************************************************************************)
(* movements.services.parse_value_br                                       *)
(* Returns [value, errors, raised]: value is <<>> for None and <<v>> for a *)
(* Decimal; raised names an exception that escapes the function.           *)
(***************************************************************************)
MsgInvalid(name) == <<"Insert a valid value to", name>>

MsgNonPositive(name) == <<"Enter a value greater than 0 to", name>>

\* a parser that rejects only negative values
parse_value_br_accepts_zero(value, name) ==
    LET d == DecimalTable[value]
    IN  IF d.kind = "invalid"
          THEN [value |-> <<>>, errors |-> <<MsgInvalid(name)>>, raised |-> "none"]
        ELSE IF d.kind = "nan"
          THEN [value |-> <<>>, errors |-> <<>>, raised |-> "InvalidOperation"]
        ELSE IF d.kind = "inf"
          THEN IF d.n < 0
                 THEN [value |-> <<>>, errors |-> <<MsgNonPositive(name)>>, raised |-> "none"]
                 ELSE [value |-> <<"Infinity">>, errors |-> <<>>, raised |-> "none"]
        ELSE IF d.n < 0
          THEN [value |-> <<>>, errors |-> <<MsgNonPositive(name)>>, raised |-> "none"]
        ELSE [value |-> <<d.n>>, errors |-> <<>>, raised |-> "none"]

parse_value_br(value, name) ==
    LET d == DecimalTable[value]
    IN  IF d.kind = "invalid"
          THEN [value |-> <<>>, errors |-> <<MsgInvalid(name)>>, raised |-> "none"]
        ELSE IF d.kind = "nan"
          \* Decimal("NaN") <= 0 signals InvalidOperation outside the try block
          THEN [value |-> <<>>, errors |-> <<>>, raised |-> "InvalidOperation"]
        ELSE IF d.kind = "inf"
          THEN IF d.n < 0
                 THEN [value |-> <<>>, errors |-> <<MsgNonPositive(name)>>, raised |-> "none"]
                 ELSE [value |-> <<"Infinity">>, errors |-> <<>>, raised |-> "none"]
        ELSE IF d.n <= 0
          THEN [value |-> <<>>, errors |-> <<MsgNonPositive(name)>>, raised |-> "none"]
        ELSE [value |-> <<d.n>>, errors |-> <<>>, raised |-> "none"]

(***************************************************************************)
(* stock.services.parse_value_br(value, msg): the comparison with 0 is     *)
(* inside the try block and only records the message; the return inside    *)
(* the except clause is the only one that hands the errors back.           *)
(***************************************************************************)
stock_parse_value_br(value, msg) ==
    LET d == DecimalTable[value]
    IN  IF d.kind = "invalid"
          THEN [value |-> <<>>, errors |-> <<msg>>, raised |-> "none"]
        ELSE IF d.kind = "nan"
          \* Decimal("NaN") <= 0 signals InvalidOperation inside the try block
          THEN [value |-> <<>>, errors |-> <<msg>>, raised |-> "none"]
        ELSE IF d.kind = "inf"
          THEN [value |-> <<IF d.n < 0 THEN "-Infinity" ELSE "Infinity">>,
                errors |-> <<>>, raised |-> "none"]
        ELSE [value |-> <<d.n>>, errors |-> <<>>, raised |-> "none"]

(***************************************************************************)
(* movements.services.convert_measures                                     *)
(***************************************************************************)
Measures == {"g", "kg", "unit"}

factors == { <<"g", "kg">>, <<"kg", "g">>, <<"g", "g">>, <<"kg", "kg">>, <<"unit", "unit">> }

\* a converter that returns the quantity whatever the units
convert_measures_identity(qte, origin, destiny) == qte

\* a converter with the two factors exchanged
convert_measures_swapped(qte, origin, destiny) ==
    IF origin = "g" /\ destiny = "kg" THEN qte * 1000
    ELSE IF origin = "kg" /\ destiny = "g" THEN qte \div 1000
    ELSE qte

\* defined only for the pairs in factors; any other pair is a KeyError
convert_measures(qte, origin, destiny) ==
    IF origin = "g" /\ destiny = "kg" THEN qte \div 1000
    ELSE IF origin = "kg" /\ destiny = "g" THEN qte * 1000
    ELSE qte

\* line 71 as a call: the lookup factors[(origin, destiny)], then the factor
convert_measures_call(qte, origin, destiny) ==
    IF <<origin, destiny>> \in factors
      THEN [value |-> <<convert_measures(qte, origin, destiny)>>, raised |-> "none"]
      ELSE [value |-> <<>>, raised |-> "KeyError"]

(***************************************************************************)
(* movements.services.format_period                                        *)
(* A datetime is [year, month, day, hour, minute, second, aware].          *)
(***************************************************************************)
MsgInvalidDate == "Insert a valid date"

MsgNegativePeriod == "The period cannot be negative."

MsgPeriodTooLong == "The maximum consultation period is 30 days."

IsLeap(y) == (y % 4 = 0 /\ y % 100 # 0) \/ y % 400 = 0

DaysInMonth(y, m) ==
    IF m = 2 THEN (IF IsLeap(y) THEN 29 ELSE 28)
    ELSE IF m \in {4, 6, 9, 11} THEN 30
    ELSE 31

\* date.toordinal(): 0001-01-01 is day 1
Ordinal(dt) ==
    LET y == dt.year - 1
    IN  y * 365 + y \div 4 - y \div 100 + y \div 400
          + SumSeq([k \in 1..(dt.month - 1) |-> DaysInMonth(dt.year, k)]) + dt.day

SecondOfDay(dt) == dt.hour * 3600 + dt.minute * 60 + dt.second

\* datetime.strptime(text + " HH:MM:SS", "%Y-%m-%d %H:%M:%S"), the date part:
\* %Y is four digits, %m one or two digits naming 1..12, %d one or two digits
\* naming 1..31; the datetime constructor then wants a year >= 1 and a day
\* that the month has.  [ok |-> FALSE] stands for ValueError.
strptime_date(text) ==
    LET dashes    == {i \in 1..Len(text) : text[i] = "-"}
        AllDigits(part) == \A i \in 1..Len(part) : IsDigit(part[i])
    IN  IF Cardinality(dashes) # 2 THEN [ok |-> FALSE, year |-> 0, month |-> 0, day |-> 0]
        ELSE
        LET i1 == CHOOSE i \in dashes : \A j \in dashes : i <= j
            i2 == CHOOSE i \in dashes : \A j \in dashes : i >= j
            ys == SubSeq(text, 1, i1 - 1)
            ms == SubSeq(text, i1 + 1, i2 - 1)
            ds == SubSeq(text, i2 + 1, Len(text))
        IN  IF /\ Len(ys) = 4 /\ AllDigits(ys)
               /\ Len(ms) \in {1, 2} /\ AllDigits(ms) /\ NatOf(ms) \in 1..12
               /\ Len(ds) \in {1, 2} /\ AllDigits(ds) /\ NatOf(ds) \in 1..31
               /\ NatOf(ys) >= 1
               /\ NatOf(ds) <= DaysInMonth(NatOf(ys), NatOf(ms))
              THEN [ok |-> TRUE, year |-> NatOf(ys), month |-> NatOf(ms), day |-> NatOf(ds)]
              ELSE [ok |-> FALSE, year |-> 0, month |-> 0, day |-> 0]

\* datetime > datetime
Later(a, b) ==
    \/ Ordinal(a) > Ordinal(b)
    \/ Ordinal(a) = Ordinal(b) /\ SecondOfDay(a) > SecondOfDay(b)

\* (a - b).days: a timedelta keeps 0 <= seconds < 86400, so the days are
\* the floor of the difference
timedelta_days(a, b) ==
    (Ordinal(a) - Ordinal(b)) + ((SecondOfDay(a) - SecondOfDay(b)) \div 86400)

\* a period test that never fires
PeriodTooLong_never(start_dt, end_dt) == FALSE

\* a period test one day stricter
PeriodTooLong_30(start_dt, end_dt) == timedelta_days(end_dt, start_dt) >= 30

\* line 37
PeriodTooLong(start_dt, end_dt) == timedelta_days(end_dt, start_dt) >= 31

\* lines 40-43: is_naive / make_aware
make_aware(dt) == [dt EXCEPT !.aware = TRUE]

format_period(start, end) ==
    LET s == strptime_date(start)
        e == strptime_date(end)
    IN  IF ~s.ok \/ ~e.ok
          THEN [value |-> <<>>, raised |-> "ValidationError", message |-> MsgInvalidDate]
        ELSE
        LET start_dt == [year |-> s.year, month |-> s.month, day |-> s.day,
                         hour |-> 0, minute |-> 0, second |-> 0, aware |-> FALSE]
            end_dt   == [year |-> e.year, month |-> e.month, day |-> e.day,
                         hour |-> 23, minute |-> 59, second |-> 59, aware |-> FALSE]
        IN  IF Later(start_dt, end_dt)
              THEN [value |-> <<>>, raised |-> "ValidationError",
                    message |-> MsgNegativePeriod]
            ELSE IF PeriodTooLong(start_dt, end_dt)
              THEN [value |-> <<>>, raised |-> "ValidationError",
                    message |-> MsgPeriodTooLong]
            ELSE [value |-> <<make_aware(start_dt), make_aware(end_dt)>>,
                  raised |-> "none", message |-> ""]

(***************************************************************************)
(* The catalogue the ledger starts with.                                   *)
(***************************************************************************)
InitCategories == (1 :> [name |-> "dry goods"])

\* category is 0 for NULL
InitIngredients ==
    (1 :> [name |-> "flour", category |-> 1, measure |-> "kg",   qte |-> 2000,
           min_qte |-> 1000]) @@
    (2 :> [name |-> "egg",   category |-> 0, measure |-> "unit", qte |-> 3000,
           min_qte |-> 1000])

InitProducts ==
    (1 :> [name |-> "cake", price |-> 10000,
           recipe |-> << [ingredient |-> 1, quantity |-> 1000],
                         [ingredient |-> 2, quantity |-> 1000] >>]) @@
    (2 :> [name |-> "omelette", price |-> 4500,
           recipe |-> << [ingredient |-> 2, quantity |-> 2000] >>])

\* primary keys a request may name; the last one is in no table
IdChoices == {1, 2, 3}

\* the database before the first request
InitDb == [ingredients |-> InitIngredients, movements |-> <<>>, inflows |-> <<>>,
           outflows |-> <<>>, nextId |-> 1]

(***************************************************************************)
(* The database as one value, so that a transaction can be run on a copy. *)
(***************************************************************************)
Db == [ingredients |-> ingredients, movements |-> movements,
       inflows |-> inflows, outflows |-> outflows, nextId |-> nextId]

\* Ingredient.objects.bulk_update(objs, ["qte"]): one UPDATE whose CASE takes,
\* for every row, the first object of the list with that primary key
bulk_update(table, objs) ==
    [id \in DOMAIN table |->
        IF \E i \in 1..Len(objs) : objs[i].id = id
          THEN LET k == CHOOSE i \in 1..Len(objs) :
                            /\ objs[i].id = id
                            /\ \A j \in 1..(i - 1) : objs[j].id # id
               IN  [table[id] EXCEPT !.qte = objs[k].qte]
          ELSE table[id]]

\* a create that puts the new row in the place of the table
MovementCreate_replace(db, user, value, type, commentary) ==
    [db EXCEPT !.movements = <<[id |-> db.nextId, user |-> user, value |-> value,
                                type |-> type, commentary |-> commentary]>>,
               !.nextId = @ + 1]

\* Movement.objects.create(...)
MovementCreate(db, user, value, type, commentary) ==
    [db EXCEPT !.movements = Append(@, [id |-> db.nextId, user |-> user, value |-> value,
                                        type |-> type, commentary |-> commentary]),
               !.nextId = @ + 1]

(***************************************************************************)
(* movements.services.create_outflow                                       *)
(***************************************************************************)
MsgInsufficient(name) == <<"Insufficient stock for ingredient", name>>

MsgNoProduct == <<"Select at least 1 product", "">>

\* the recipe loop without the stock check
RECURSIVE RecipeLoop_unchecked(_, _, _, _)
RecipeLoop_unchecked(table, recipe, quantity, acc) ==
    IF recipe = <<>> THEN acc
    ELSE LET recipe_item == recipe[1]
             ingredient  == table[recipe_item.ingredient]
         IN  RecipeLoop_unchecked(table, Tail(recipe), quantity,
                 [acc EXCEPT !.ingredients_to_reduce =
                      Append(@, [id |-> recipe_item.ingredient,
                                 qte |-> ingredient.qte
                                           - Mul(recipe_item.quantity, quantity)])])

\* lines 203-212: the recipe loop of one product, on the rows as the
\* transaction sees them; every recipe_item.ingredient is a fresh read
RECURSIVE RecipeLoop(_, _, _, _)
RecipeLoop(table, recipe, quantity, acc) ==
    IF recipe = <<>> THEN acc
    ELSE LET recipe_item  == recipe[1]
             ingredient   == table[recipe_item.ingredient]
             decrease_qte == Mul(recipe_item.quantity, quantity)
             remaining    == ingredient.qte - decrease_qte
         IN  IF remaining < 0
               THEN RecipeLoop(table, Tail(recipe), quantity,
                        [acc EXCEPT !.product_errors =
                                        Append(@, MsgInsufficient(ingredient.name))])
               ELSE RecipeLoop(table, Tail(recipe), quantity,
                        [acc EXCEPT !.ingredients_to_reduce =
                                        Append(@, [id |-> recipe_item.ingredient,
                                                   qte |-> remaining])])

\* lines 198-200: what a quantity that does not parse leaves behind
OutflowParseError(st, qte_error) == st

\* lines 191-222: one iteration of the products loop.
\* st = [db, errors, products_sold, total_value, raised]
OutflowProduct(st, product_id, data) ==
    IF product_id \notin DOMAIN products
      THEN [st EXCEPT !.raised = "DoesNotExist"]
    ELSE
    LET product == products[product_id]
        parsed  == parse_value_br(data.qp[product_id], product.name)
    IN  IF parsed.raised # "none" THEN [st EXCEPT !.raised = parsed.raised]
        ELSE IF parsed.errors # <<>> THEN OutflowParseError(st, parsed.errors)
        ELSE
        LET quantity == parsed.value[1]
            checked  == IF quantity # 0
                          THEN RecipeLoop(st.db.ingredients, product.recipe, quantity,
                                   [product_errors |-> <<>>, ingredients_to_reduce |-> <<>>])
                          ELSE [product_errors |-> <<>>, ingredients_to_reduce |-> <<>>]
            value    == Mul(product.price, quantity)
        IN  IF checked.product_errors # <<>>
              THEN [st EXCEPT !.errors = @ \o checked.product_errors]
              ELSE [st EXCEPT
                      !.total_value = @ + value,
                      !.db.ingredients = bulk_update(@, checked.ingredients_to_reduce),
                      !.products_sold = Append(@, [name |-> product.name,
                                                   quantity |-> quantity,
                                                   price |-> value])]

\* a products loop that ends at the first product that lacks stock
RECURSIVE OutflowLoop_stopfirst(_, _, _)
OutflowLoop_stopfirst(st, ids, data) ==
    IF ids = <<>> \/ st.raised # "none" \/ st.errors # <<>> THEN st
    ELSE OutflowLoop_stopfirst(OutflowProduct(st, ids[1], data), Tail(ids), data)

\* a products loop that passes over an id that is in no table
RECURSIVE OutflowLoop_skipmissing(_, _, _)
OutflowLoop_skipmissing(st, ids, data) ==
    IF ids = <<>> \/ st.raised # "none" THEN st
    ELSE IF ids[1] \notin DOMAIN products
      THEN OutflowLoop_skipmissing(st, Tail(ids), data)
    ELSE OutflowLoop_skipmissing(OutflowProduct(st, ids[1], data), Tail(ids), data)

\* the loop ends at the first exception (Product.objects.get, line 192)
RECURSIVE OutflowLoop(_, _, _)
OutflowLoop(st, ids, data) ==
    IF ids = <<>> \/ st.raised # "none" THEN st
    ELSE OutflowLoop(OutflowProduct(st, ids[1], data), Tail(ids), data)

\* MovementOutflow.quantity is a PositiveIntegerField: the value is saved as
\* int(value), the Decimal cut off at the decimal point (here in thousandths)
IntegerField(value) == (value \div 1000) * 1000

\* lines 234-240
RECURSIVE OutflowLines(_, _, _)
OutflowLines(table, movement, sold) ==
    IF sold = <<>> THEN table
    ELSE OutflowLines(Append(table, [movement |-> movement, name |-> sold[1].name,
                                     quantity |-> IntegerField(sold[1].quantity),
                                     price |-> sold[1].price]),
                      movement, Tail(sold))

\* lines 224-240: raise the collected errors, or record the movement
OutflowFinish(st, data, username) ==
    IF st.raised # "none" THEN st
    ELSE IF st.errors # <<>> THEN [st EXCEPT !.raised = "ValidationError"]
    ELSE LET created == MovementCreate(st.db, username, st.total_value, "out",
                                       data.commentary)
         IN  [st EXCEPT !.db = [created EXCEPT !.outflows =
                                   OutflowLines(@, st.db.nextId, st.products_sold)]]

\* the body of create_outflow without the test of the selection
create_outflow_unguarded(db, data, username) ==
    OutflowFinish(OutflowLoop([db |-> db, errors |-> <<>>, products_sold |-> <<>>,
                               total_value |-> 0, raised |-> "none"],
                              data.products, data),
                  data, username)

\* the body of create_outflow, run on the database value db
create_outflow(db, data, username) ==
    LET st0 == [db |-> db, errors |-> <<>>, products_sold |-> <<>>,
                total_value |-> 0, raised |-> "none"]
    IN  IF data.products = <<>>
          THEN [st0 EXCEPT !.errors = <<MsgNoProduct>>, !.raised = "ValidationError"]
          ELSE OutflowFinish(OutflowLoop(st0, data.products, data), data, username)

\* a service function without the decorator: nothing is rolled back
atomic_missing(db, st) == st.db

\* @transaction.atomic: commit when the body returns, roll back when it raises
atomic(db, st) == IF st.raised = "none" THEN st.db ELSE db

(***************************************************************************)
(* movements.services.create_inflow                                        *)
(***************************************************************************)
MsgNoIngredient == <<"Select at least 1 ingredient", "">>

\* lines 126-141: one iteration of the ingredients loop.
\* st = [db, errors, ingredients_to_add, value, raised]
InflowIngredient(st, ingredient_id, data) ==
    IF ingredient_id \notin DOMAIN st.db.ingredients
      THEN [st EXCEPT !.raised = "DoesNotExist"]
    ELSE
    LET ingredient == st.db.ingredients[ingredient_id]
        qte        == parse_value_br(data.qi[ingredient_id], ingredient.name)
        price      == parse_value_br(data.pi[ingredient_id], ingredient.name)
        measure    == data.m[ingredient_id]
    IN  IF qte.raised # "none" THEN [st EXCEPT !.raised = qte.raised]
        ELSE IF price.raised # "none" THEN [st EXCEPT !.raised = price.raised]
        ELSE IF qte.errors # <<>> \/ price.errors # <<>>
          THEN [st EXCEPT !.errors = @ \o qte.errors \o price.errors]
        ELSE IF <<measure, ingredient.measure>> \notin factors
          THEN [st EXCEPT !.raised = "KeyError"]
        ELSE [st EXCEPT
                !.ingredients_to_add =
                    Append(@, [id |-> ingredient_id,
                               name |-> ingredient.name,
                               qte |-> ingredient.qte +
                                       convert_measures(qte.value[1], measure,
                                                        ingredient.measure),
                               qte_to_add |-> qte.value[1],
                               price |-> price.value[1],
                               measure |-> measure]),
                !.value = @ + price.value[1]]

\* a loop that ends at the first line that does not parse
RECURSIVE InflowLoop_stopfirst(_, _, _)
InflowLoop_stopfirst(st, ids, data) ==
    IF ids = <<>> \/ st.raised # "none" \/ st.errors # <<>> THEN st
    ELSE InflowLoop_stopfirst(InflowIngredient(st, ids[1], data), Tail(ids), data)

\* lines 126-141: the loop ends at the first exception
\* (Ingredient.objects.get, line 127; convert_measures, line 138)
RECURSIVE InflowLoop(_, _, _)
InflowLoop(st, ids, data) ==
    IF ids = <<>> \/ st.raised # "none" THEN st
    ELSE InflowLoop(InflowIngredient(st, ids[1], data), Tail(ids), data)

\* the lines written with quantity and price exchanged
RECURSIVE InflowLines_swapped(_, _, _)
InflowLines_swapped(table, movement, added) ==
    IF added = <<>> THEN table
    ELSE InflowLines_swapped(Append(table, [movement |-> movement, name |-> added[1].name,
                                            quantity |-> added[1].price,
                                            price |-> added[1].qte_to_add,
                                            measure |-> added[1].measure]),
                             movement, Tail(added))

\* lines 155-162
RECURSIVE InflowLines(_, _, _)
InflowLines(table, movement, added) ==
    IF added = <<>> THEN table
    ELSE InflowLines(Append(table, [movement |-> movement, name |-> added[1].name,
                                    quantity |-> added[1].qte_to_add,
                                    price |-> added[1].price,
                                    measure |-> added[1].measure]),
                     movement, Tail(added))

\* the commit phase entered without looking at the collected errors
InflowFinish_noraise(st, data, username) ==
    IF st.raised # "none" THEN st
    ELSE LET updated == [st.db EXCEPT !.ingredients =
                                          bulk_update(@, st.ingredients_to_add)]
             created == MovementCreate(updated, username, st.value, "in",
                                       data.commentary)
         IN  [st EXCEPT !.db = created]

\* lines 143-162: raise the collected errors, or write stock and the movement
InflowFinish(st, data, username) ==
    IF st.raised # "none" THEN st
    ELSE IF st.errors # <<>> THEN [st EXCEPT !.raised = "ValidationError"]
    ELSE LET updated == [st.db EXCEPT !.ingredients =
                                          bulk_update(@, st.ingredients_to_add)]
             created == MovementCreate(updated, username, st.value, "in",
                                       data.commentary)
         IN  [st EXCEPT !.db = [created EXCEPT !.inflows =
                                   InflowLines(@, st.db.nextId, st.ingredients_to_add)]]

\* the body of create_inflow, run on the database value db
create_inflow(db, data, username) ==
    LET st0 == [db |-> db, errors |-> <<>>, ingredients_to_add |-> <<>>,
                value |-> 0, raised |-> "none"]
    IN  IF data.ingredients = <<>>
          THEN [st0 EXCEPT !.errors = <<MsgNoIngredient>>, !.raised = "ValidationError"]
          ELSE InflowFinish(InflowLoop(st0, data.ingredients, data), data, username)

(***************************************************************************)
(* Requests.                                                               *)
(***************************************************************************)
Commentaries == {"", "weekly order"}

Usernames == {"Ana Lima"}

NoField == [id \in {} |-> <<>>]

NoData == [ingredients |-> <<>>, qi |-> NoField, pi |-> NoField, m |-> NoField,
           products |-> <<>>, qp |-> NoField, commentary |-> ""]

\* the POST data of an inflow form: the selected ids, in order, and the
\* fields qi-<id>, pi-<id>, m-<id> of every selected id that is in the table
InflowData ==
    { [NoData EXCEPT !.ingredients = ids,
                     !.qi = [id \in DOMAIN typed |-> typed[id][1]],
                     !.pi = [id \in DOMAIN typed |-> typed[id][2]],
                     !.m  = [id \in DOMAIN typed |-> typed[id][3]],
                     !.commentary = c] :
        <<ids, typed, c>> \in
            UNION { {ids0} \X [Range(ids0) \cap DOMAIN InitIngredients -> InflowLinesTyped]
                           \X Commentaries :
                        ids0 \in SeqsUpTo(IdChoices, MaxSel) } }

\* the POST data of an outflow form: the selected ids and the fields qp-<id>
OutflowData ==
    { [NoData EXCEPT !.products = ids, !.qp = typed, !.commentary = c] :
        <<ids, typed, c>> \in
            UNION { {ids0} \X [Range(ids0) \cap DOMAIN InitProducts -> RawSold]
                           \X Commentaries :
                        ids0 \in SeqsUpTo(IdChoices, MaxSel) } }

(***************************************************************************)
(* The sequential specification: one request at a time.                    *)
(***************************************************************************)
NoCall == [op |-> "none", data |-> NoData, username |-> "", target |-> 0,
           outcome |-> "none", errors |-> <<>>, staged |-> InitIngredients,
           pre |-> [ingredients |-> InitIngredients, movements |-> <<>>,
                    inflows |-> <<>>, outflows |-> <<>>, nextId |-> 1]]

NoTx == [t \in {1, 2} |-> [pc |-> "idle"]]

\* no pure function is being called
NoPureCall == [fn |-> "none"]

Init ==
    /\ ingredients = InitIngredients
    /\ products = InitProducts
    /\ categories = InitCategories
    /\ movements = <<>>
    /\ inflows = <<>>
    /\ outflows = <<>>
    /\ nextId = 1
    /\ calls = 0
    /\ last = NoCall
    /\ tx = NoTx
    /\ call = NoPureCall

Idle == \A t \in DOMAIN tx : tx[t].pc = "idle"

\* the tables after a service call that ended in st
Commit(st) ==
    LET db == atomic(Db, st)
    IN  /\ ingredients' = db.ingredients
        /\ movements' = db.movements
        /\ inflows' = db.inflows
        /\ outflows' = db.outflows
        /\ nextId' = db.nextId

Outcome(st) == IF st.raised = "none" THEN "ok" ELSE st.raised

\* movements.views.movement_create, lines 49-66: what the request handler
\* answers when the service call ended in outcome; only ValidationError is
\* caught, any other exception leaves the view
movement_create_response(outcome) ==
    IF outcome = "ok" THEN "redirect with success message"
    ELSE IF outcome = "ValidationError" THEN "form with error messages"
    ELSE "unhandled exception"

CreateInflow ==
    /\ Idle
    /\ calls < MaxCalls
    /\ calls' = calls + 1
    /\ \E data \in InflowData, username \in Usernames :
          LET st == create_inflow(Db, data, username)
          IN  /\ Commit(st)
              /\ last' = [op |-> "in", data |-> data, username |-> username,
                          target |-> 0, outcome |-> Outcome(st),
                          errors |-> st.errors, staged |-> st.db.ingredients,
                          pre |-> Db]
    /\ UNCHANGED <<products, categories, tx, call>>

CreateOutflow ==
    /\ Idle
    /\ calls < MaxCalls
    /\ calls' = calls + 1
    /\ \E data \in OutflowData, username \in Usernames :
          LET st == create_outflow(Db, data, username)
          IN  /\ Commit(st)
              /\ last' = [op |-> "out", data |-> data, username |-> username,
                          target |-> 0, outcome |-> Outcome(st),
                          errors |-> st.errors, staged |-> st.db.ingredients,
                          pre |-> Db]
    /\ UNCHANGED <<products, categories, tx, call>>

Next == CreateInflow \/ CreateOutflow

Spec == Init /\ [][Next]_vars

(***************************************************************************)
(* The request handler with every value of the type field: next to "in"    *)
(* and "out", the POSTs whose type no case of the match statement takes.   *)
(***************************************************************************)
\* the field absent (request.POST.get gives None), empty, or another word
OtherTypes == {"absent", "", "transfer"}

\* movements.views.movement_create (POST), lines 49-61, when the type is
\* neither "in" nor "out": no case matches, no service is called, and the
\* handler goes on to the success message and the redirect
MovementCreateOther ==
    /\ Idle
    /\ calls < MaxCalls
    /\ calls' = calls + 1
    /\ \E type \in OtherTypes, username \in Usernames :
          last' = [op |-> type, data |-> NoData, username |-> username,
                   target |-> 0, outcome |-> "ok", errors |-> <<>>,
                   staged |-> ingredients, pre |-> Db]
    /\ UNCHANGED <<ingredients, products, categories, movements, inflows, outflows,
                   nextId, tx, call>>

NextView == CreateInflow \/ CreateOutflow \/ MovementCreateOther

SpecView == Init /\ [][NextView]_vars

(***************************************************************************)
(* The interleaved specification: two requests run create_inflow or        *)
(* create_outflow at the same time, each in its own transaction.  The      *)
(* services read rows with plain SELECTs (no select_for_update) and write  *)
(* absolute quantities with bulk_update.  A transaction sees the committed *)
(* rows and its own writes (READ COMMITTED); an UPDATE waits while another *)
(* open transaction holds an uncommitted write of the same row.            *)
(***************************************************************************)
Txs == {1, 2}

NoWrites == [id \in {} |-> 0]

Overlay(w, p) ==
    [id \in DOMAIN w \cup DOMAIN p |-> IF id \in DOMAIN p THEN p[id] ELSE w[id]]

\* the Ingredient rows as a transaction with uncommitted writes w reads them
View(table, w) ==
    [id \in DOMAIN table |->
        IF id \in DOMAIN w THEN [table[id] EXCEPT !.qte = w[id]] ELSE table[id]]

\* rows write-locked by the open transaction t
Locked(t) == IF tx[t].pc \in {"loop", "write"} THEN DOMAIN tx[t].writes ELSE {}

LockedByOther(t) == UNION {Locked(u) : u \in Txs \ {t}}

\* one valid-looking selection per request is enough to interleave
ConcRequests ==
    { [op |-> "in", data |-> d] :
        d \in {d \in InflowData : /\ Len(d.ingredients) = 1
                                  /\ d.ingredients[1] \in DOMAIN InitIngredients
                                  /\ d.commentary = ""} }
    \cup
    { [op |-> "out", data |-> d] :
        d \in {d \in OutflowData : /\ Len(d.products) = 1
                                   /\ d.products[1] \in DOMAIN InitProducts
                                   /\ d.commentary = ""} }

Selection(t) ==
    IF tx[t].op = "in" THEN tx[t].data.ingredients ELSE tx[t].data.products

\* the view entered: the transaction begins
TxBegin(t) ==
    /\ tx[t].pc = "idle"
    /\ \E r \in ConcRequests, username \in Usernames :
          tx' = [tx EXCEPT ![t] =
                    [pc |-> "loop", op |-> r.op, data |-> r.data, username |-> username,
                     i |-> 1, writes |-> NoWrites, pending |-> NoWrites,
                     outcome |-> "none",
                     st |-> IF r.op = "in"
                              THEN [db |-> Db, errors |-> <<>>,
                                    ingredients_to_add |-> <<>>, value |-> 0,
                                    raised |-> "none"]
                              ELSE [db |-> Db, errors |-> <<>>, products_sold |-> <<>>,
                                    total_value |-> 0, raised |-> "none"]]]
    /\ UNCHANGED <<ingredients, products, categories, movements, inflows, outflows,
                   nextId, calls, last, call>>

\* one iteration of the loop up to its write: the rows are read and checked
TxRead(t) ==
    /\ tx[t].pc = "loop"
    /\ tx[t].i <= Len(Selection(t))
    /\ tx[t].st.raised = "none"
    /\ LET view   == View(ingredients, tx[t].writes)
           st_in  == [tx[t].st EXCEPT !.db = [Db EXCEPT !.ingredients = view]]
           st_out == IF tx[t].op = "in"
                       THEN InflowIngredient(st_in, Selection(t)[tx[t].i], tx[t].data)
                       ELSE OutflowProduct(st_in, Selection(t)[tx[t].i], tx[t].data)
           written == {id \in DOMAIN view : st_out.db.ingredients[id] # view[id]}
       IN  tx' = [tx EXCEPT ![t].st = st_out,
                            ![t].pending = [id \in written |-> st_out.db.ingredients[id].qte],
                            ![t].pc = IF written = {} THEN "loop" ELSE "write",
                            ![t].i = IF written = {} THEN @ + 1 ELSE @]
    /\ UNCHANGED <<ingredients, products, categories, movements, inflows, outflows,
                   nextId, calls, last, call>>

\* line 221: the bulk_update of the iteration, once the rows are free
TxWrite(t) ==
    /\ tx[t].pc = "write"
    /\ DOMAIN tx[t].pending \cap LockedByOther(t) = {}
    /\ tx' = [tx EXCEPT ![t].writes = Overlay(@, tx[t].pending),
                        ![t].pending = NoWrites,
                        ![t].pc = "loop",
                        ![t].i = @ + 1]
    /\ UNCHANGED <<ingredients, products, categories, movements, inflows, outflows,
                   nextId, calls, last, call>>

\* the end of the service function: commit, or roll back on an exception
TxFinish(t) ==
    /\ tx[t].pc = "loop"
    /\ tx[t].i > Len(Selection(t)) \/ tx[t].st.raised # "none"
    /\ LET view  == View(ingredients, tx[t].writes)
           st_in == [tx[t].st EXCEPT !.db = [Db EXCEPT !.ingredients = view]]
           st    == IF tx[t].op = "in"
                      THEN InflowFinish(st_in, tx[t].data, tx[t].username)
                      ELSE OutflowFinish(st_in, tx[t].data, tx[t].username)
           written == {id \in DOMAIN view : st.db.ingredients[id] # view[id]}
       IN  /\ written \cap LockedByOther(t) = {}
           /\ Commit(st)
           /\ tx' = [tx EXCEPT ![t].pc = "done", ![t].outcome = Outcome(st),
                               ![t].st = st, ![t].writes = NoWrites]
    /\ UNCHANGED <<products, categories, calls, last, call>>

NextConc == \E t \in Txs : TxBegin(t) \/ TxRead(t) \/ TxWrite(t) \/ TxFinish(t)

SpecConc == Init /\ [][NextConc]_vars

(***************************************************************************)
(* The ledger with its catalogue: next to the two services, the handlers   *)
(* that delete a movement (movements/views.py) and that change or delete   *)
(* ingredients, products and categories (stock/views.py).  The behaviours  *)
(* start from a ledger that already holds an inflow and an outflow.        *)
(* A number typed into a stock form is <<>> when Decimal(                  *)
(* sanitize_separators(text)) fails and <<n>> when it gives n.             *)
(***************************************************************************)
\* 500 g of flour bought for 2,50
SeedInflow ==
    [NoData EXCEPT !.ingredients = <<1>>,
                   !.qi = (1 :> <<"5","0","0">>),
                   !.pi = (1 :> <<"2",",","5","0">>),
                   !.m  = (1 :> "g"),
                   !.commentary = "weekly order"]

\* one omelette sold
SeedOutflow == [NoData EXCEPT !.products = <<2>>, !.qp = (2 :> <<"1">>)]

\* the database after a request was served on db
AfterInflow(db, data) == atomic(db, create_inflow(db, data, "Ana Lima"))

AfterOutflow(db, data) == atomic(db, create_outflow(db, data, "Ana Lima"))

\* the database after the two seed requests were served
SeedDb == AfterOutflow(AfterInflow(InitDb, SeedInflow), SeedOutflow)

InitLedger ==
    /\ products = InitProducts
    /\ categories = InitCategories
    /\ \E seed \in {SeedDb} :
          /\ ingredients = seed.ingredients
          /\ movements = seed.movements
          /\ inflows = seed.inflows
          /\ outflows = seed.outflows
          /\ nextId = seed.nextId
    /\ calls = 0
    /\ last = NoCall
    /\ tx = NoTx
    /\ call = NoPureCall

\* what is kept of a request of the handlers below
Handled(op, target, outcome) ==
    [op |-> op, data |-> NoData, username |-> "", target |-> target,
     outcome |-> outcome, errors |-> <<>>, staged |-> ingredients, pre |-> Db,
     preProducts |-> products]

\* on_delete=CASCADE of MovementInflow.movement and MovementOutflow.movement,
\* with nothing deleted
DeleteCascade_none(lines, id) == lines

\* on_delete=CASCADE of MovementInflow.movement and MovementOutflow.movement
DeleteCascade(lines, id) == SelectSeq(lines, LAMBDA line : line.movement # id)

\* movements.views.movement_delete (POST), lines 164-179
MovementDelete ==
    /\ Idle
    /\ calls < MaxCalls
    /\ calls' = calls + 1
    /\ \E id \in 1..nextId, password_ok \in BOOLEAN :
          LET outcome == IF \A i \in 1..Len(movements) : movements[i].id # id
                           THEN "Http404"
                         ELSE IF ~password_ok THEN "wrong password"
                         ELSE "ok"
          IN  /\ IF outcome = "ok"
                   THEN /\ movements' = SelectSeq(movements, LAMBDA m : m.id # id)
                        /\ inflows' = DeleteCascade(inflows, id)
                        /\ outflows' = DeleteCascade(outflows, id)
                   ELSE UNCHANGED <<movements, inflows, outflows>>
              /\ last' = Handled("movement_delete", id, outcome)
    /\ UNCHANGED <<ingredients, products, categories, nextId, tx, call>>

IngredientNames == {"flour", "rye flour"}

ProductNames == {"cake", "tart"}

CategoryNames == {"dry goods", "pantry"}

\* unreadable, 0 and 5
TypedQuantities == { <<>>, <<0>>, <<5000>> }

\* unreadable and 1
TypedMinimums == { <<>>, <<1000>> }

\* unreadable and 12,00
TypedPrices == { <<>>, <<12000>> }

\* unreadable and 2
TypedRecipeQuantities == { <<>>, <<2000>> }

\* a category the form names: the last one is in no table
CategoryIdChoices == {1, 2}

\* stock.views.ingredient_update (POST), lines 346-397
IngredientUpdate ==
    /\ Idle
    /\ calls < MaxCalls
    /\ calls' = calls + 1
    /\ \E id \in IdChoices, name \in IngredientNames, qte \in TypedQuantities,
          min_qte \in TypedMinimums, category \in CategoryIdChoices,
          measure \in {"g", "unit"} :
          LET outcome ==
                  IF id \notin DOMAIN ingredients THEN "Http404"
                  ELSE IF \E other \in DOMAIN ingredients \ {id} :
                              ingredients[other].name = name
                    THEN "ValidationError"
                  ELSE IF \/ qte = <<>> \/ min_qte = <<>>
                          \/ qte[1] < 1000 \/ min_qte[1] < 1000
                    THEN "ValidationError"
                  ELSE IF category \notin DOMAIN categories THEN "Http404"
                  ELSE "ok"
          IN  /\ ingredients' =
                     IF outcome = "ok"
                       THEN [ingredients EXCEPT ![id] =
                                [name |-> name, category |-> category, measure |-> measure,
                                 qte |-> qte[1], min_qte |-> min_qte[1]]]
                       ELSE ingredients
              /\ last' = Handled("ingredient_update", id, outcome)
    /\ UNCHANGED <<products, categories, movements, inflows, outflows, nextId, tx, call>>

\* stock.views.ingredient_delete (POST), lines 421-436; ProductIngredient
\* rows go with the ingredient (on_delete=CASCADE)
IngredientDelete ==
    /\ Idle
    /\ calls < MaxCalls
    /\ calls' = calls + 1
    /\ \E id \in IdChoices, password_ok \in BOOLEAN :
          LET outcome == IF id \notin DOMAIN ingredients THEN "Http404"
                         ELSE IF ~password_ok THEN "wrong password"
                         ELSE "ok"
          IN  /\ IF outcome = "ok"
                   THEN /\ ingredients' = [i \in DOMAIN ingredients \ {id} |-> ingredients[i]]
                        /\ products' =
                               [p \in DOMAIN products |->
                                   [products[p] EXCEPT !.recipe =
                                       SelectSeq(@, LAMBDA item : item.ingredient # id)]]
                   ELSE UNCHANGED <<ingredients, products>>
              /\ last' = Handled("ingredient_delete", id, outcome)
    /\ UNCHANGED <<categories, movements, inflows, outflows, nextId, tx, call>>

\* the ids of a set in ascending order
SortedIds(S) == SelectSeq(<<1, 2, 3>>, LAMBDA id : id \in S)

\* ProductIngredient.objects.update_or_create(product, ingredient_id, quantity)
RECURSIVE UpdateOrCreate(_, _, _)
UpdateOrCreate(recipe, ids, quantity) ==
    IF ids = <<>> THEN recipe
    ELSE LET id == ids[1]
             q  == quantity[id][1]
         IN  UpdateOrCreate(
                 IF \E k \in 1..Len(recipe) : recipe[k].ingredient = id
                   THEN [k \in 1..Len(recipe) |->
                            IF recipe[k].ingredient = id
                              THEN [recipe[k] EXCEPT !.quantity = q]
                              ELSE recipe[k]]
                   ELSE Append(recipe, [ingredient |-> id, quantity |-> q]),
                 Tail(ids), quantity)

\* stock.views.product_update (POST), lines 620-693: name and price are
\* saved and the deselected recipe rows deleted before the quantities are
\* checked, and the view is not atomic
ProductUpdate ==
    /\ Idle
    /\ calls < MaxCalls
    /\ calls' = calls + 1
    /\ \E id \in IdChoices, name \in ProductNames, price \in TypedPrices,
          selected \in SUBSET DOMAIN ingredients :
          \E quantity \in [selected -> TypedRecipeQuantities] :
          LET early ==
                  IF id \notin DOMAIN products THEN "Http404"
                  ELSE IF \E other \in DOMAIN products \ {id} : products[other].name = name
                    THEN "ValidationError"
                  ELSE IF price = <<>> \/ price[1] < 1000 THEN "ValidationError"
                  ELSE IF selected = {} THEN "ValidationError"
                  ELSE "none"
              saved == [products[id] EXCEPT
                           !.name = name,
                           !.price = price[1],
                           !.recipe = SelectSeq(@, LAMBDA item : item.ingredient \in selected)]
              bad == \E i \in selected : quantity[i] = <<>> \/ quantity[i][1] < 1000
          IN  /\ products' =
                     IF early # "none" THEN products
                     ELSE IF bad THEN [products EXCEPT ![id] = saved]
                     ELSE [products EXCEPT ![id] =
                              [saved EXCEPT !.recipe =
                                  UpdateOrCreate(@, SortedIds(selected), quantity)]]
              /\ last' = Handled("product_update", id,
                                 IF early # "none" THEN early
                                 ELSE IF bad THEN "ValidationError"
                                 ELSE "ok")
    /\ UNCHANGED <<ingredients, categories, movements, inflows, outflows, nextId, tx, call>>

\* stock.views.product_delete (POST), lines 717-732
ProductDelete ==
    /\ Idle
    /\ calls < MaxCalls
    /\ calls' = calls + 1
    /\ \E id \in IdChoices, password_ok \in BOOLEAN :
          LET outcome == IF id \notin DOMAIN products THEN "Http404"
                         ELSE IF ~password_ok THEN "wrong password"
                         ELSE "ok"
          IN  /\ products' = IF outcome = "ok"
                                THEN [p \in DOMAIN products \ {id} |-> products[p]]
                                ELSE products
              /\ last' = Handled("product_delete", id, outcome)
    /\ UNCHANGED <<ingredients, categories, movements, inflows, outflows, nextId, tx, call>>

\* stock.views.category_update (POST), lines 122-139
CategoryUpdate ==
    /\ Idle
    /\ calls < MaxCalls
    /\ calls' = calls + 1
    /\ \E id \in CategoryIdChoices, name \in CategoryNames :
          LET outcome == IF id \notin DOMAIN categories THEN "Http404"
                         ELSE IF \E other \in DOMAIN categories \ {id} :
                                     categories[other].name = name
                           THEN "name taken"
                         ELSE "ok"
          IN  /\ categories' = IF outcome = "ok"
                                  THEN [categories EXCEPT ![id].name = name]
                                  ELSE categories
              /\ last' = Handled("category_update", id, outcome)
    /\ UNCHANGED <<ingredients, products, movements, inflows, outflows, nextId, tx, call>>

\* stock.views.category_delete (POST), lines 163-178; Ingredient.category is
\* set to NULL (on_delete=SET_NULL)
CategoryDelete ==
    /\ Idle
    /\ calls < MaxCalls
    /\ calls' = calls + 1
    /\ \E id \in CategoryIdChoices, password_ok \in BOOLEAN :
          LET outcome == IF id \notin DOMAIN categories THEN "Http404"
                         ELSE IF ~password_ok THEN "wrong password"
                         ELSE "ok"
          IN  /\ IF outcome = "ok"
                   THEN /\ categories' = [c \in DOMAIN categories \ {id} |-> categories[c]]
                        /\ ingredients' =
                               [i \in DOMAIN ingredients |->
                                   IF ingredients[i].category = id
                                     THEN [ingredients[i] EXCEPT !.category = 0]
                                     ELSE ingredients[i]]
                   ELSE UNCHANGED <<categories, ingredients>>
              /\ last' = Handled("category_delete", id, outcome)
    /\ UNCHANGED <<products, movements, inflows, outflows, nextId, tx, call>>

NextLedger ==
    \/ CreateInflow
    \/ CreateOutflow
    \/ MovementDelete
    \/ IngredientUpdate
    \/ IngredientDelete
    \/ ProductUpdate
    \/ ProductDelete
    \/ CategoryUpdate
    \/ CategoryDelete

SpecLedger == InitLedger /\ [][NextLedger]_vars

(***************************************************************************)
(* The pure functions of movements/services.py called on their own: the    *)
(* arguments are chosen in the initial state, one step returns the result. *)
(* The ledger is there and is left alone.                                  *)
(***************************************************************************)
Quiescent ==
    /\ ingredients = InitIngredients
    /\ products = InitProducts
    /\ categories = InitCategories
    /\ movements = <<>>
    /\ inflows = <<>>
    /\ outflows = <<>>
    /\ nextId = 1
    /\ calls = 0
    /\ last = NoCall
    /\ tx = NoTx

\* the function has been called with args and has not returned
Called(fn, args) == [fn |-> fn, args |-> args, pc |-> "called", result |-> <<>>]

Return(result) ==
    /\ call' = [call EXCEPT !.pc = "returned", !.result = result]
    /\ UNCHANGED <<ingredients, products, categories, movements, inflows, outflows,
                   nextId, calls, last, tx>>

\* whole quantities (thousandths), so that a division by 1000 is exact
ConvertQuantities == {k * 1000 : k \in (-1..MaxWhole) \cup {500, 1000}}

InitConvert ==
    /\ Quiescent
    /\ call \in {Called("convert_measures", <<qte, origin, destiny>>) :
                    qte \in ConvertQuantities, origin \in Measures, destiny \in Measures}

ConvertMeasures ==
    /\ call.fn = "convert_measures"
    /\ call.pc = "called"
    /\ Return(convert_measures_call(call.args[1], call.args[2], call.args[3]))

NextConvert == ConvertMeasures

SpecConvert == InitConvert /\ [][NextConvert]_vars

Labels == {"flour", "cake"}

InitParse ==
    /\ Quiescent
    /\ call \in {Called("parse_value_br", <<value, name>>) :
                    value \in ParseInputs, name \in Labels}

ParseValueBr ==
    /\ call.fn = "parse_value_br"
    /\ call.pc = "called"
    /\ Return(parse_value_br(call.args[1], call.args[2]))

NextParse == ParseValueBr

SpecParse == InitParse /\ [][NextParse]_vars

\* the messages the callers pass in
StockMessages == {"Please enter a valid price!", "Enter a valid quantity"}

InitStockParse ==
    /\ Quiescent
    /\ call \in {Called("stock.parse_value_br", <<value, msg>>) :
                    value \in ParseInputs, msg \in StockMessages}

StockParseValueBr ==
    /\ call.fn = "stock.parse_value_br"
    /\ call.pc = "called"
    /\ Return(stock_parse_value_br(call.args[1], call.args[2]))

NextStockParse == StockParseValueBr

SpecStockParse == InitStockParse /\ [][NextStockParse]_vars

\* the dates typed into the period form
YearTexts == { <<"2","0","2","3">>, <<"2","0","2","4">> }

MonthTexts == { <<"0","1">>, <<"0","2">>, <<"0","3">>, <<"1","2">>, <<"1","3">>, <<"1">> }

DayTexts == { <<"0","1">>, <<"0","2">>, <<"2","9">>, <<"3","0">>, <<"3","1">>, <<"3","2">>,
              <<"1">> }

\* "", "31/01/2024", "2024-01"
NotDates ==
    { <<>>, <<"3","1","/","0","1","/","2","0","2","4">>, <<"2","0","2","4","-","0","1">> }

DateTexts ==
    { y \o <<"-">> \o m \o <<"-">> \o d : y \in YearTexts, m \in MonthTexts, d \in DayTexts }
        \cup NotDates

InitPeriod ==
    /\ Quiescent
    /\ call \in {Called("format_period", <<start, end>>) :
                    start \in DateTexts, end \in DateTexts}

FormatPeriod ==
    /\ call.fn = "format_period"
    /\ call.pc = "called"
    /\ Return(format_period(call.args[1], call.args[2]))

NextPeriod == FormatPeriod

SpecPeriod == InitPeriod /\ [][NextPeriod]_vars

(***************************************************************************)
(* accounts.services.update_account, called on its own.  An account is     *)
(* [first_name, last_name, email, role]; a password is a sequence of       *)
(* characters, <<>> for a field left empty.                                *)
(***************************************************************************)
MsgPasswordsDiffer == "As senhas devem ser iguais!"

MsgPasswordTooShort == "A senha deve ter no minimo 8 caracteres!"

validate_password(password, confirm_password) ==
    (IF password # confirm_password THEN <<MsgPasswordsDiffer>> ELSE <<>>)
      \o (IF Len(password) < 8 THEN <<MsgPasswordTooShort>> ELSE <<>>)

\* returns [account, raised, errors]
update_account(account, data) ==
    LET error == IF data.password # <<>> /\ data.confirm_password # <<>>
                   THEN validate_password(data.password, data.confirm_password)
                   ELSE <<>>
    IN  IF error # <<>>
          THEN [account |-> account, raised |-> "ValidationError", errors |-> error]
          ELSE [account |-> [first_name |-> data.first_name,
                             last_name |-> data.last_name,
                             email |-> data.email,
                             role |-> data.role],
                raised |-> "none", errors |-> <<>>]

Accounts ==
    { [first_name |-> "Ana", last_name |-> "Lima", email |-> "ana@cafe.example",
       role |-> "admin"],
      [first_name |-> "Rui", last_name |-> "Melo", email |-> "rui@cafe.example",
       role |-> "employee"] }

\* "", "abc", "abcdefgh", "abcdefgz"
Passwords ==
    { <<>>, <<"a","b","c">>, <<"a","b","c","d","e","f","g","h">>,
      <<"a","b","c","d","e","f","g","z">> }

AccountData ==
    [first_name : {"Ana", "Ana Maria"}, last_name : {"Lima"},
     email : {"ana@cafe.example", "a.lima@cafe.example"},
     role : {"admin", "employee"},
     password : Passwords, confirm_password : Passwords]

InitAccount ==
    /\ Quiescent
    /\ call \in {Called("update_account", <<account, data>>) :
                    account \in Accounts, data \in AccountData}

UpdateAccount ==
    /\ call.fn = "update_account"
    /\ call.pc = "called"
    /\ Return(update_account(call.args[1], call.args[2]))

NextAccount == UpdateAccount

SpecAccount == InitAccount /\ [][NextAccount]_vars

(***************************************************************************)
(* Vocabulary of the properties.                                           *)
(***************************************************************************)
\* the four tables are as they were before the last call
LedgerUnchanged ==
    /\ ingredients = last.pre.ingredients
    /\ movements = last.pre.movements
    /\ inflows = last.pre.inflows
    /\ outflows = last.pre.outflows

\* rows the last call added
NewMovements == SubSeq(movements, Len(last.pre.movements) + 1, Len(movements))

NewInflows == SubSeq(inflows, Len(last.pre.inflows) + 1, Len(inflows))

NewOutflows == SubSeq(outflows, Len(last.pre.outflows) + 1, Len(outflows))

\* rows that existed before the last call are still there, unchanged
OldRowsKept ==
    /\ SubSeq(movements, 1, Len(last.pre.movements)) = last.pre.movements
    /\ SubSeq(inflows, 1, Len(last.pre.inflows)) = last.pre.inflows
    /\ SubSeq(outflows, 1, Len(last.pre.outflows)) = last.pre.outflows

AllProductsExist(data) == \A i \in 1..Len(data.products) : data.products[i] \in DOMAIN products

AllIngredientsExist(data) ==
    \A i \in 1..Len(data.ingredients) : data.ingredients[i] \in DOMAIN last.pre.ingredients

\* the sold quantity typed for the i-th selected product: <<>> or <<q>>
SoldQuantity(data, i) ==
    LET id == data.products[i]
    IN  parse_value_br(data.qp[id], products[id].name).value

\* the i-th selected product is in the table, its quantity parses, and one of
\* its recipe lines needs more than the stock held before the call
ShortIngredients(db, data, i) ==
    LET id == data.products[i]
    IN  IF id \notin DOMAIN products \/ SoldQuantity(data, i) = <<>> THEN {}
        ELSE { products[id].recipe[k].ingredient : k \in
                 { k \in 1..Len(products[id].recipe) :
                     Mul(products[id].recipe[k].quantity, SoldQuantity(data, i)[1])
                         > db.ingredients[products[id].recipe[k].ingredient].qte } }

\* C1: when a selected product needs more of a recipe ingredient than the
\* stock held before a createOutflow call, the call does not succeed, the
\* four tables are exactly as before the call (deductions staged for the
\* other products of the batch included), and, every selected id being a
\* product, the call fails with an error list naming that ingredient.
C1_InsufficientStockFailsWholeBatch ==
    (last.op = "out") =>
        \A i \in 1..Len(last.data.products) :
            \A short \in ShortIngredients(last.pre, last.data, i) :
                /\ last.outcome # "ok"
                /\ LedgerUnchanged
                /\ AllProductsExist(last.data) =>
                      /\ last.outcome = "ValidationError"
                      /\ MsgInsufficient(last.pre.ingredients[short].name)
                             \in Range(last.errors)

\* a batch of two products failed for want of stock after the deduction of
\* another product of the batch had been written inside the transaction
C1_Witness ==
    /\ last.op = "out"
    /\ Len(last.data.products) = 2
    /\ \E i \in 1..2 : ShortIngredients(last.pre, last.data, i) # {}
    /\ last.outcome = "ValidationError"
    /\ last.staged # last.pre.ingredients
    /\ LedgerUnchanged

\* C2 (as claimed): when the quantity typed for a selected product does not
\* parse, the createOutflow call does not succeed, nothing is committed, and,
\* every selected id being a product, the call fails with an error list that
\* holds the parse error of that product.
C2_ParseFailureFailsWholeBatch ==
    (last.op = "out") =>
        \A i \in 1..Len(last.data.products) :
            LET id == last.data.products[i]
            IN  (id \in DOMAIN products /\ SoldQuantity(last.data, i) = <<>>) =>
                    /\ last.outcome # "ok"
                    /\ LedgerUnchanged
                    /\ AllProductsExist(last.data) =>
                          /\ last.outcome = "ValidationError"
                          /\ parse_value_br(last.data.qp[id], products[id].name).errors[1]
                                 \in Range(last.errors)

\* C3: no ingredient quantity is ever negative, whatever createInflow and
\* createOutflow calls were made, batches that consume one ingredient through
\* several selections included.
C3_StockNeverNegative ==
    \A id \in DOMAIN ingredients : ingredients[id].qte >= 0

\* the second call of a behaviour, after a committed first one, is a batch of
\* two products each of which the stock before the call would cover alone, and
\* it fails: the check of the second saw the deduction of the first
C3_Witness ==
    /\ calls = 2
    /\ last.pre.movements # <<>>
    /\ last.op = "out"
    /\ Len(last.data.products) = 2
    /\ AllProductsExist(last.data)
    /\ \A i \in 1..2 : /\ SoldQuantity(last.data, i) # <<>>
                       /\ ShortIngredients(last.pre, last.data, i) = {}
    /\ last.outcome = "ValidationError"
    /\ C3_StockNeverNegative

\* what the i-th selection of an outflow takes from ingredient ing
Required(data, i, ing) ==
    LET id == data.products[i]
        sold == SoldQuantity(data, i)
    IN  IF sold = <<>> THEN 0
        ELSE SumSeq([k \in 1..Len(products[id].recipe) |->
                        IF products[id].recipe[k].ingredient = ing
                          THEN Mul(products[id].recipe[k].quantity, sold[1])
                          ELSE 0])

\* C4 (as claimed): after a successful createOutflow every ingredient holds
\* its stock before the call minus recipe quantity x sold quantity summed over
\* the selections, and the call created one outflow line per selected
\* product, in input order, with the product name, the sold quantity and
\* price x sold quantity.
C4_OutflowDeductsAndRecordsEverySelection ==
    (last.op = "out" /\ last.outcome = "ok") =>
        /\ \A ing \in DOMAIN ingredients :
              ingredients[ing].qte =
                  last.pre.ingredients[ing].qte
                    - SumSeq([i \in 1..Len(last.data.products) |->
                                 Required(last.data, i, ing)])
        /\ Len(NewOutflows) = Len(last.data.products)
        /\ \A i \in 1..Len(last.data.products) :
              LET product == products[last.data.products[i]]
                  sold == SoldQuantity(last.data, i)
              IN  /\ sold # <<>>
                  /\ NewOutflows[i].name = product.name
                  /\ NewOutflows[i].quantity = sold[1]
                  /\ NewOutflows[i].price = Mul(product.price, sold[1])

\* the parser errors of one inflow line: quantity first, then price
LineErrors(data, id) ==
    LET name == last.pre.ingredients[id].name
    IN  parse_value_br(data.qi[id], name).errors \o parse_value_br(data.pi[id], name).errors

RECURSIVE ConcatLineErrors(_, _)
ConcatLineErrors(data, ids) ==
    IF ids = <<>> THEN <<>>
    ELSE LineErrors(data, ids[1]) \o ConcatLineErrors(data, Tail(ids))

\* the unit pairs the converter knows
Convertible(from, to) == from = to \/ {from, to} = {"g", "kg"}

\* every selected id is an ingredient and every line that parses names a unit
\* that converts to the ingredient's unit
NoLookupFailure(data) ==
    /\ AllIngredientsExist(data)
    /\ \A i \in 1..Len(data.ingredients) :
          LET id == data.ingredients[i]
          IN  LineErrors(data, id) = <<>> =>
                  Convertible(data.m[id], last.pre.ingredients[id].measure)

\* C5: when the quantity or the price of a line of a createInflow call does
\* not parse, the call does not succeed and the four tables are exactly as
\* before the call, the ingredients of the lines that parsed included; when
\* no id or unit lookup fails, the call fails with the parser errors of all
\* lines, concatenated in input order.
C5_InflowParseFailureCommitsNothing ==
    (/\ last.op = "in"
     /\ \E i \in 1..Len(last.data.ingredients) :
           /\ last.data.ingredients[i] \in DOMAIN last.pre.ingredients
           /\ LineErrors(last.data, last.data.ingredients[i]) # <<>>) =>
        /\ last.outcome # "ok"
        /\ LedgerUnchanged
        /\ NoLookupFailure(last.data) =>
              /\ last.outcome = "ValidationError"
              /\ last.errors = ConcatLineErrors(last.data, last.data.ingredients)

\* an inflow of two ingredients of which one line parses and converts and the
\* other does not parse
C5_Witness ==
    /\ last.op = "in"
    /\ Len(last.data.ingredients) = 2
    /\ last.data.ingredients[1] # last.data.ingredients[2]
    /\ NoLookupFailure(last.data)
    /\ \E i, j \in 1..2 :
          /\ LineErrors(last.data, last.data.ingredients[i]) = <<>>
          /\ LineErrors(last.data, last.data.ingredients[j]) # <<>>
    /\ last.outcome = "ValidationError"
    /\ LedgerUnchanged

\* a mass in grams, whatever unit it is written in
Grams(q, unit) == IF unit = "kg" THEN q * 1000 ELSE q

Distinct(ids) == \A i, j \in 1..Len(ids) : i # j => ids[i] # ids[j]

\* C6: after a successful createInflow over distinct ingredient ids every
\* selected ingredient holds its stock before the call plus the submitted
\* quantity converted from the unit of the request to the unit of the
\* ingredient, and every other ingredient is unchanged.
C6_InflowAddsConvertedQuantity ==
    (last.op = "in" /\ last.outcome = "ok" /\ Distinct(last.data.ingredients)) =>
        \A id \in DOMAIN ingredients :
            IF id \in Range(last.data.ingredients)
              THEN LET q == parse_value_br(last.data.qi[id], ingredients[id].name).value[1]
                   IN  Grams(ingredients[id].qte - last.pre.ingredients[id].qte,
                             ingredients[id].measure)
                           = Grams(q, last.data.m[id])
              ELSE ingredients[id] = last.pre.ingredients[id]

\* 500 g were added to an ingredient kept in kg, next to another ingredient
C6_Witness ==
    /\ last.op = "in"
    /\ last.outcome = "ok"
    /\ Len(last.data.ingredients) = 2
    /\ Distinct(last.data.ingredients)
    /\ \E id \in Range(last.data.ingredients) :
          /\ last.data.m[id] = "g"
          /\ ingredients[id].measure = "kg"
          /\ ingredients[id].qte = last.pre.ingredients[id].qte + 500

\* C7 (as claimed): a successful createInflow or createOutflow adds exactly
\* one Movement row, of type "in" or "out", with the responsible and the
\* commentary passed in, and one line per selection; a failing call adds no
\* row at all.
C7_OneMovementPerSuccessfulCall ==
    (last.op \in {"in", "out"}) =>
        /\ OldRowsKept
        /\ IF last.outcome = "ok"
             THEN /\ Len(NewMovements) = 1
                  /\ NewMovements[1].type = last.op
                  /\ NewMovements[1].user = last.username
                  /\ NewMovements[1].commentary = last.data.commentary
                  /\ Len(NewInflows) = Len(last.data.ingredients)
                  /\ Len(NewOutflows) = Len(last.data.products)
                  /\ \A i \in 1..Len(NewInflows) : NewInflows[i].movement = NewMovements[1].id
                  /\ \A i \in 1..Len(NewOutflows) : NewOutflows[i].movement = NewMovements[1].id
             ELSE NewMovements = <<>> /\ NewInflows = <<>> /\ NewOutflows = <<>>

\* C8 (as claimed): every inflow line of a successful createInflow records
\* the ingredient's name, the quantity converted into the ingredient's unit,
\* the price and the unit of the request.
C8_InflowLineRecordsConvertedQuantity ==
    (last.op = "in" /\ last.outcome = "ok") =>
        /\ Len(NewInflows) = Len(last.data.ingredients)
        /\ \A i \in 1..Len(NewInflows) :
              LET id == last.data.ingredients[i]
                  name == last.pre.ingredients[id].name
              IN  /\ NewInflows[i].name = name
                  /\ Grams(NewInflows[i].quantity, last.pre.ingredients[id].measure)
                         = Grams(parse_value_br(last.data.qi[id], name).value[1],
                                 last.data.m[id])
                  /\ NewInflows[i].price = parse_value_br(last.data.pi[id], name).value[1]
                  /\ NewInflows[i].measure = last.data.m[id]

\* C8 (amended): every inflow line of a successful createInflow records the
\* ingredient's name, the quantity as submitted (parsed, not converted), the
\* price and the unit of the request, one line per selection in input order.
C8_InflowLineRecordsSubmittedQuantity ==
    (last.op = "in" /\ last.outcome = "ok") =>
        /\ Len(NewInflows) = Len(last.data.ingredients)
        /\ \A i \in 1..Len(NewInflows) :
              LET id == last.data.ingredients[i]
                  name == last.pre.ingredients[id].name
              IN  /\ NewInflows[i].name = name
                  /\ NewInflows[i].quantity = parse_value_br(last.data.qi[id], name).value[1]
                  /\ NewInflows[i].price = parse_value_br(last.data.pi[id], name).value[1]
                  /\ NewInflows[i].measure = last.data.m[id]

\* a line of 500 g was recorded for an ingredient kept in kg
C8_Witness ==
    /\ last.op = "in"
    /\ last.outcome = "ok"
    /\ \E i \in 1..Len(NewInflows) :
          /\ NewInflows[i].measure = "g"
          /\ NewInflows[i].quantity = 500000
          /\ last.pre.ingredients[last.data.ingredients[i]].measure = "kg"

\* C10: createInflow without an ingredient selection and createOutflow
\* without a product selection fail with the single error of the empty
\* selection and leave the four tables as they were.
C10_EmptySelectionFails ==
    /\ (last.op = "in" /\ last.data.ingredients = <<>>) =>
          /\ last.outcome = "ValidationError"
          /\ last.errors = <<MsgNoIngredient>>
          /\ LedgerUnchanged
    /\ (last.op = "out" /\ last.data.products = <<>>) =>
          /\ last.outcome = "ValidationError"
          /\ last.errors = <<MsgNoProduct>>
          /\ LedgerUnchanged

\* an outflow without products was refused on a ledger that holds a movement
C10_Witness ==
    /\ last.op = "out"
    /\ last.data.products = <<>>
    /\ last.outcome = "ValidationError"
    /\ movements # <<>>

\* C11: when a createInflow or createOutflow call selects an id that is in
\* no table, the call does not succeed and the four tables are exactly as
\* before the call: deductions written for earlier products of the batch are
\* rolled back and no Movement or line row is created.
C11_MissingIdFailsWholeCall ==
    /\ (last.op = "in" /\ ~AllIngredientsExist(last.data)) =>
          (last.outcome # "ok" /\ LedgerUnchanged)
    /\ (last.op = "out" /\ ~AllProductsExist(last.data)) =>
          (last.outcome # "ok" /\ LedgerUnchanged)

\* an outflow whose first product was deducted inside the transaction and
\* whose second id is no product ended without any change of the tables
C11_Witness ==
    /\ last.op = "out"
    /\ Len(last.data.products) = 2
    /\ last.data.products[1] \in DOMAIN products
    /\ last.data.products[2] \notin DOMAIN products
    /\ last.staged # last.pre.ingredients
    /\ last.outcome = "DoesNotExist"
    /\ LedgerUnchanged

\* C12 (as claimed): every failure of createInflow or createOutflow, a
\* missing id included, reaches the request handler as a validation failure
\* with a non-empty list of messages, which the handler shows on the form;
\* no other exception leaves the service.
C12_EveryFailureIsValidationError ==
    (last.op \in {"in", "out"} /\ last.outcome # "ok") =>
        /\ last.outcome = "ValidationError"
        /\ last.errors # <<>>
        /\ movement_create_response(last.outcome) = "form with error messages"

\* the lines of an inflow that parse and whose unit does not convert to the
\* unit of the ingredient
UnsupportedLines(data) ==
    { i \in 1..Len(data.ingredients) :
        LET id == data.ingredients[i]
        IN  /\ id \in DOMAIN last.pre.ingredients
            /\ LineErrors(data, id) = <<>>
            /\ ~Convertible(data.m[id], last.pre.ingredients[id].measure) }

\* C13 (as claimed): a createInflow line whose unit and the ingredient's unit
\* mix "unit" with "g" or "kg" is rejected with a validation error that
\* carries a message, not with a lookup failure, and the four tables stay as
\* they were.
C13_UnsupportedConversionIsValidationError ==
    (last.op = "in" /\ UnsupportedLines(last.data) # {}) =>
        /\ last.outcome = "ValidationError"
        /\ last.errors # <<>>
        /\ LedgerUnchanged

\* the call of fn has returned
Returned(fn) == call.fn = fn /\ call.pc = "returned"

\* C14: convertUnit(x, g, kg) is x / 1000, convertUnit(x, kg, g) is x * 1000
\* and convertUnit(x, u, u) is x for each of the three units, for every
\* quantity x; the call leaves the ledger as it was.
C14_ConvertUnitFactors ==
    Returned("convert_measures") =>
        LET x       == call.args[1]
            origin  == call.args[2]
            destiny == call.args[3]
        IN  /\ (origin = "g" /\ destiny = "kg") =>
                  (call.result.raised = "none" /\ call.result.value[1] * 1000 = x)
            /\ (origin = "kg" /\ destiny = "g") =>
                  (call.result.raised = "none" /\ call.result.value[1] = x * 1000)
            /\ (origin = destiny) =>
                  (call.result.raised = "none" /\ call.result.value[1] = x)
            /\ Quiescent

\* 1000 g were converted to 1 kg
C14_Witness ==
    /\ Returned("convert_measures")
    /\ call.args = <<1000000, "g", "kg">>
    /\ call.result.value = <<1000>>

\* C15: parseNumeric removes every "." and turns "," into "."; it returns
\* (v, no error) when the cleaned text is a decimal v > 0, (no value, one
\* invalid-format error) when the cleaned text is no decimal, and (no value,
\* one non-positive error) when the decimal is <= 0; a result without error
\* carries a value > 0; the error names the label passed in.  "1.234,56"
\* gives 1234.56; "abc" and "" are invalid; "0" and "-5,00" are non-positive.
C15_ParseNumericCases ==
    Returned("parse_value_br") =>
        LET raw  == call.args[1]
            name == call.args[2]
            d    == DecimalOf(CleanBr(raw))
            r    == call.result
        IN  /\ (raw # NoneValue /\ d.kind = "num" /\ d.n > 0) =>
                  r = [value |-> <<d.n>>, errors |-> <<>>, raised |-> "none"]
            /\ (raw # NoneValue /\ d.kind = "invalid") =>
                  r = [value |-> <<>>, errors |-> <<MsgInvalid(name)>>, raised |-> "none"]
            /\ (raw # NoneValue /\ d.kind = "num" /\ d.n <= 0) =>
                  r = [value |-> <<>>, errors |-> <<MsgNonPositive(name)>>, raised |-> "none"]
            /\ (r.raised = "none" /\ r.errors = <<>>) =>
                  /\ d.kind \in {"num", "inf"}
                  /\ d.n > 0
                  /\ r.value # <<>>
            /\ \A i \in 1..Len(r.errors) : r.errors[i][2] = name
            /\ (raw = <<"1",".","2","3","4",",","5","6">>) => r.value = <<1234560>>
            /\ (raw \in {<<"a","b","c">>, <<>>}) => r.errors = <<MsgInvalid(name)>>
            /\ (raw \in {<<"0">>, <<"-","5",",","0","0">>}) =>
                  r.errors = <<MsgNonPositive(name)>>

\* "1.234,56" was parsed to 1234.56
C15_Witness ==
    /\ Returned("parse_value_br")
    /\ call.args[1] = <<"1",".","2","3","4",",","5","6">>
    /\ call.result.value = <<1234560>>

\* C16 (as claimed): parseNumeric never raises: for every input, an absent
\* value and the special values "NaN" and "Infinity" included, it returns
\* either a value > 0 with no error or no value with at least one error.
C16_ParseNumericNeverRaises ==
    Returned("parse_value_br") =>
        LET r == call.result
        IN  /\ r.raised = "none"
            /\ \/ (r.value # <<>> /\ r.errors = <<>>)
               \/ (r.value = <<>> /\ r.errors # <<>>)

\* the date a text names, as (year, month, day)
DateOf(text) == LET p == strptime_date(text) IN <<p.year, p.month, p.day>>

\* (year, month, day) a is a later day than b
LaterDay(a, b) ==
    \/ a[1] > b[1]
    \/ a[1] = b[1] /\ a[2] > b[2]
    \/ a[1] = b[1] /\ a[2] = b[2] /\ a[3] > b[3]

\* days from the day of datetime a to the day of datetime b
DaysApart(a, b) == Ordinal(b) - Ordinal(a)

\* "2024-01-01", "2024-01-31", "2024-02-01"
Jan01 == <<"2","0","2","4","-","0","1","-","0","1">>

Jan31 == <<"2","0","2","4","-","0","1","-","3","1">>

Feb01 == <<"2","0","2","4","-","0","2","-","0","1">>

\* C17: validatePeriod fails with the invalid-date error when either text
\* names no calendar date; otherwise with the negative-period error exactly
\* when the start day is later than the end day; otherwise with the
\* too-long error exactly when the end day is 31 days or more after the
\* start day; otherwise it returns the start day at 00:00:00 and the end day
\* at 23:59:59.  2024-01-01..2024-01-31 is accepted, 2024-01-01..2024-02-01
\* is too long.
C17_ValidatePeriodCases ==
    Returned("format_period") =>
        LET start == call.args[1]
            end   == call.args[2]
            r     == call.result
            sd    == DateOf(start)
            ed    == DateOf(end)
            span  == DaysApart([year |-> sd[1], month |-> sd[2], day |-> sd[3]],
                               [year |-> ed[1], month |-> ed[2], day |-> ed[3]])
        IN  /\ IF ~strptime_date(start).ok \/ ~strptime_date(end).ok
                 THEN r.raised = "ValidationError" /\ r.message = MsgInvalidDate
               ELSE IF LaterDay(sd, ed)
                 THEN r.raised = "ValidationError" /\ r.message = MsgNegativePeriod
               ELSE IF span >= 31
                 THEN r.raised = "ValidationError" /\ r.message = MsgPeriodTooLong
               ELSE /\ r.raised = "none"
                    /\ <<r.value[1].year, r.value[1].month, r.value[1].day>> = sd
                    /\ <<r.value[1].hour, r.value[1].minute, r.value[1].second>> = <<0, 0, 0>>
                    /\ <<r.value[2].year, r.value[2].month, r.value[2].day>> = ed
                    /\ <<r.value[2].hour, r.value[2].minute, r.value[2].second>>
                           = <<23, 59, 59>>
            /\ (start = Jan01 /\ end = Jan31) => r.raised = "none"
            /\ (start = Jan01 /\ end = Feb01) => r.message = MsgPeriodTooLong
            /\ (start = Feb01 /\ end = Jan01) => r.message = MsgNegativePeriod
            /\ (start = end /\ strptime_date(start).ok) => r.raised = "none"

\* 2024-01-01..2024-01-31 was accepted
C17_Witness ==
    /\ Returned("format_period")
    /\ call.args = <<Jan01, Jan31>>
    /\ call.result.raised = "none"
    /\ call.result.value[2].day = 31

\* C18 (as claimed): an accepted period counts at most 30 days, the start
\* day and the end day both counted.
C18_AcceptedSpanAtMost30Days ==
    (Returned("format_period") /\ call.result.raised = "none") =>
        DaysApart(call.result.value[1], call.result.value[2]) + 1 <= 30

\* C18 (amended): the end day of an accepted period is at most 30 days after
\* its start day, so the period counts at most 31 days, both ends counted,
\* and the returned timestamps are less than 31 whole days apart.
C18_AcceptedSpanAtMost31Days ==
    (Returned("format_period") /\ call.result.raised = "none") =>
        /\ DaysApart(call.result.value[1], call.result.value[2]) <= 30
        /\ DaysApart(call.result.value[1], call.result.value[2]) + 1 <= 31
        /\ timedelta_days(call.result.value[2], call.result.value[1]) < 31

\* a period of 31 days, both ends counted, was accepted
C18_Witness ==
    /\ Returned("format_period")
    /\ call.result.raised = "none"
    /\ DaysApart(call.result.value[1], call.result.value[2]) + 1 = 31

\* the last request deleted the Movement last.target
DeletedMovement == last.op = "movement_delete" /\ last.outcome = "ok"

\* the rows of a table before the last request, without those of the
\* Movement it deleted
Surviving(rows, IdOf(_)) ==
    SelectSeq(rows, LAMBDA row : ~(DeletedMovement /\ IdOf(row) = last.target))

MovementOf(line) == line.movement

IdOfMovement(m) == m.id

\* C19: deleting a Movement removes that Movement and every inflow and
\* outflow line of it, removes or changes no row of another Movement, and
\* leaves every Ingredient and every Product as it was: the stock effect of
\* the deleted movement stays.
C19_DeleteRemovesMovementAndItsLines ==
    DeletedMovement =>
        /\ \A i \in 1..Len(movements) : movements[i].id # last.target
        /\ \A i \in 1..Len(inflows) : inflows[i].movement # last.target
        /\ \A i \in 1..Len(outflows) : outflows[i].movement # last.target
        /\ movements = Surviving(last.pre.movements, IdOfMovement)
        /\ inflows = Surviving(last.pre.inflows, MovementOf)
        /\ outflows = Surviving(last.pre.outflows, MovementOf)
        /\ ingredients = last.pre.ingredients
        /\ products = last.preProducts

\* an inflow with a line was deleted from a ledger that held another
\* movement with a line; that line is still there and the stock the inflow
\* added was not taken back
C19_Witness ==
    /\ DeletedMovement
    /\ \E i \in 1..Len(last.pre.inflows) : last.pre.inflows[i].movement = last.target
    /\ inflows = <<>>
    /\ outflows # <<>>
    /\ movements # <<>>
    /\ ingredients[1].qte = InitIngredients[1].qte + 500

\* C20: whatever the request (an inflow, an outflow, the update or deletion
\* of an ingredient, a product or a category, the deletion of a movement),
\* every Movement committed before it, other than the one it deleted, and
\* every line of such a Movement are afterwards exactly as they were, in the
\* same order.
C20_CommittedMovementsImmutable ==
    (last.op # "none") =>
        LET keptMovements == Surviving(last.pre.movements, IdOfMovement)
            keptInflows   == Surviving(last.pre.inflows, MovementOf)
            keptOutflows  == Surviving(last.pre.outflows, MovementOf)
        IN  /\ Len(movements) >= Len(keptMovements)
            /\ SubSeq(movements, 1, Len(keptMovements)) = keptMovements
            /\ Len(inflows) >= Len(keptInflows)
            /\ SubSeq(inflows, 1, Len(keptInflows)) = keptInflows
            /\ Len(outflows) >= Len(keptOutflows)
            /\ SubSeq(outflows, 1, Len(keptOutflows)) = keptOutflows

\* the ingredient of a recorded inflow line was renamed or deleted and a new
\* movement was recorded after that: the old line still carries the name,
\* the quantity and the unit it was bought under
C20_Witness ==
    /\ calls = 2
    /\ last.op \in {"in", "out"}
    /\ last.outcome = "ok"
    /\ Len(movements) = 3
    /\ \E i \in 1..Len(inflows) :
          /\ inflows[i].movement = 1
          /\ inflows[i].name = "flour"
          /\ inflows[i].quantity = 500000
          /\ inflows[i].measure = "g"
    /\ \A id \in DOMAIN ingredients : ingredients[id].name # "flour"

\* the inflow lines and the outflow lines of the Movement with key id
InflowLinesOf(id) == SelectSeq(inflows, LAMBDA line : line.movement = id)

OutflowLinesOf(id) == SelectSeq(outflows, LAMBDA line : line.movement = id)

\* the price of the product a line names
PriceOf(name) ==
    products[CHOOSE id \in DOMAIN products : products[id].name = name].price

\* C21 (as claimed): the value of every Movement is the sum of the values of
\* its own lines: the sum of the line prices of an inflow, and the sum of
\* product price x recorded sold quantity over the lines of an outflow.
C21_MovementValueIsSumOfLines ==
    \A i \in 1..Len(movements) :
        LET m == movements[i]
        IN  IF m.type = "in"
              THEN m.value = SumSeq([k \in 1..Len(InflowLinesOf(m.id)) |->
                                        InflowLinesOf(m.id)[k].price])
              ELSE m.value = SumSeq([k \in 1..Len(OutflowLinesOf(m.id)) |->
                                        Mul(PriceOf(OutflowLinesOf(m.id)[k].name),
                                            OutflowLinesOf(m.id)[k].quantity)])

\* C22 (as claimed): every outflow line records a whole quantity and a value
\* of product price x that quantity, and the quantity an outflow line of the
\* last call records is the quantity that was typed for the product, the one
\* the line value and the stock deduction were computed from.
C22_OutflowLineQuantityIsTheOneUsed ==
    /\ \A k \in 1..Len(outflows) :
          /\ outflows[k].quantity % 1000 = 0
          /\ outflows[k].price = Mul(PriceOf(outflows[k].name), outflows[k].quantity)
    /\ (last.op = "out" /\ last.outcome = "ok") =>
          \A k \in 1..Len(NewOutflows) :
              \E i \in 1..Len(last.data.products) :
                  /\ products[last.data.products[i]].name = NewOutflows[k].name
                  /\ SoldQuantity(last.data, i) = <<NewOutflows[k].quantity>>

\* the names of the ingredients a request selects
SelectedNames(data) ==
    { last.pre.ingredients[data.ingredients[i]].name : i \in 1..Len(data.ingredients) }

\* C23: createInflow does not stop at the first line that fails to parse.
\* The error list a call over a non-empty selection fails with is, line by
\* line in input order, the quantity error and then the price error of every
\* line whose quantity or price does not parse, each labelled with the name
\* of the line's ingredient, and nothing for the lines that parse; and a
\* call with such a line, every id being an ingredient and every unit
\* convertible, does fail with that list.
C23_InflowCollectsErrorsOfEveryLine ==
    (last.op = "in" /\ last.data.ingredients # <<>>) =>
        /\ (last.outcome = "ValidationError") =>
              /\ last.errors = ConcatLineErrors(last.data, last.data.ingredients)
              /\ \A k \in 1..Len(last.errors) :
                     /\ last.errors[k][2] \in SelectedNames(last.data)
                     /\ last.errors[k][1] \in {MsgInvalid("")[1], MsgNonPositive("")[1]}
        /\ (/\ NoLookupFailure(last.data)
            /\ ConcatLineErrors(last.data, last.data.ingredients) # <<>>) =>
              last.outcome = "ValidationError"

\* an inflow of two ingredients failed with three errors: the first line
\* gave one, and the second line, read after it, gave its quantity error and
\* its price error
C23_Witness ==
    /\ last.op = "in"
    /\ last.outcome = "ValidationError"
    /\ Len(last.data.ingredients) = 2
    /\ Distinct(last.data.ingredients)
    /\ Len(LineErrors(last.data, last.data.ingredients[1])) = 1
    /\ Len(LineErrors(last.data, last.data.ingredients[2])) = 2
    /\ Len(last.errors) = 3
    /\ last.errors[2][1] = MsgNonPositive("")[1]
    /\ last.errors[3][1] = MsgInvalid("")[1]
    /\ last.errors[1][2] # last.errors[2][2]

\* what selling sold of product id takes from ingredient ing
Takes(id, sold, ing) ==
    SumSeq([k \in 1..Len(products[id].recipe) |->
               IF products[id].recipe[k].ingredient = ing
                 THEN Mul(products[id].recipe[k].quantity, sold)
                 ELSE 0])

\* the InsufficientStock errors of the selections ids, in processing order:
\* a product whose quantity parses is checked recipe line by recipe line
\* against stock, the quantities left by the products accepted before it;
\* a product that passes takes its ingredients, any other takes nothing
RECURSIVE StockErrors(_, _, _)
StockErrors(stock, data, ids) ==
    IF ids = <<>> THEN <<>>
    ELSE LET id     == ids[1]
             sold   == parse_value_br(data.qp[id], products[id].name).value
             short  == SelectSeq(products[id].recipe,
                                 LAMBDA item : /\ sold # <<>>
                                               /\ Mul(item.quantity, sold[1])
                                                      > stock[item.ingredient])
             passes == sold # <<>> /\ short = <<>>
             left   == [ing \in DOMAIN stock |->
                           IF passes THEN stock[ing] - Takes(id, sold[1], ing)
                                     ELSE stock[ing]]
         IN  [k \in 1..Len(short) |->
                 MsgInsufficient(last.pre.ingredients[short[k].ingredient].name)]
               \o StockErrors(left, data, Tail(ids))

\* C24: createOutflow checks every selected product before it decides.  For
\* a call whose selected ids are all products, the call fails with an error
\* list exactly when some recipe line of some selected product needs more
\* than the stock available to it, and the list then holds one
\* InsufficientStock error naming the ingredient for every such recipe line
\* of every selected product, in processing order: products after one that
\* failed its parse or its stock check are still checked.
C24_OutflowValidatesEveryProduct ==
    (last.op = "out" /\ last.data.products # <<>> /\ AllProductsExist(last.data)) =>
        LET expected == StockErrors([ing \in DOMAIN last.pre.ingredients |->
                                        last.pre.ingredients[ing].qte],
                                    last.data, last.data.products)
        IN  /\ (last.outcome = "ValidationError") <=> (expected # <<>>)
            /\ (last.outcome = "ValidationError") => last.errors = expected

\* a batch of two different products: the first lacks stock and the second,
\* checked after it, lacks stock too; the call failed with both errors
C24_Witness ==
    /\ last.op = "out"
    /\ Len(last.data.products) = 2
    /\ Distinct(last.data.products)
    /\ AllProductsExist(last.data)
    /\ \A i \in 1..2 : ShortIngredients(last.pre, last.data, i) # {}
    /\ last.outcome = "ValidationError"
    /\ Len(last.errors) >= 2
    /\ LedgerUnchanged

\* a batch of two products: the quantity of the first does not parse and the
\* second, checked after it, lacks stock; the call failed with that error
C24_WitnessAfterParseFailure ==
    /\ last.op = "out"
    /\ Len(last.data.products) = 2
    /\ AllProductsExist(last.data)
    /\ SoldQuantity(last.data, 1) = <<>>
    /\ ShortIngredients(last.pre, last.data, 2) # {}
    /\ last.outcome = "ValidationError"
    /\ Len(last.errors) = 1

\* C25 (as claimed): when a new password is provided, in one of the two
\* fields or in both, and the two fields differ or the password has fewer
\* than 8 characters, update_account raises ValidationError and the account
\* keeps its first name, last name, email and role.
C25_InvalidPasswordLeavesAccountUnchanged ==
    Returned("update_account") =>
        LET account == call.args[1]
            data    == call.args[2]
        IN  (/\ data.password # <<>> \/ data.confirm_password # <<>>
             /\ data.password # data.confirm_password \/ Len(data.password) < 8) =>
                /\ call.result.raised = "ValidationError"
                /\ call.result.errors # <<>>
                /\ call.result.account = account

\* the inflow lines the last call created for the ingredient named name
NewInflowsOf(name) == SelectSeq(NewInflows, LAMBDA line : line.name = name)

\* C26 (as claimed): after a successful createInflow, whatever the
\* selection list, one that names an ingredient more than once included,
\* the stock of every ingredient has grown by the sum of the quantities of
\* the inflow lines the call created for it, each converted to the
\* ingredient's unit (both sides compared in grams for a mass).
C26_InflowStockMatchesItsLines ==
    (last.op = "in" /\ last.outcome = "ok") =>
        \A id \in DOMAIN ingredients :
            Grams(ingredients[id].qte - last.pre.ingredients[id].qte,
                  ingredients[id].measure)
              = SumSeq([k \in 1..Len(NewInflowsOf(last.pre.ingredients[id].name)) |->
                           Grams(NewInflowsOf(last.pre.ingredients[id].name)[k].quantity,
                                 NewInflowsOf(last.pre.ingredients[id].name)[k].measure)])

\* C27 (as claimed): every Movement of the ledger has at least one inflow
\* line or one outflow line, whatever createInflow and createOutflow calls
\* were made.
C27_EveryMovementHasALine ==
    \A i \in 1..Len(movements) :
        InflowLinesOf(movements[i].id) # <<>> \/ OutflowLinesOf(movements[i].id) # <<>>

\* C28 (as claimed): a movement_create POST ends in the success message and
\* the redirect to the movement list only when it created a Movement; a POST
\* whose type is missing or is neither "in" nor "out" creates nothing and
\* does not end in success.
C28_SuccessOnlyWhenMovementCreated ==
    (/\ last.op # "none"
     /\ movement_create_response(last.outcome) = "redirect with success message") =>
        /\ Len(NewMovements) = 1
        /\ last.op \in {"in", "out"}

\* C29 (as claimed): a product_update POST that ends in a validation error
\* leaves every product as it was before the request: name, price and
\* recipe lines of the product it names included.
C29_FailedProductUpdateChangesNothing ==
    (last.op = "product_update" /\ last.outcome = "ValidationError") =>
        products = last.preProducts

\* C30 (as claimed): the stock module's parse_value_br returns no value and
\* a non-empty error list when the text is no decimal or the number is <= 0,
\* and returns a value with an empty error list only for a number > 0.
C30_StockParseRejectsNonPositive ==
    Returned("stock.parse_value_br") =>
        LET raw == call.args[1]
            d   == IF raw = NoneValue THEN [kind |-> "invalid", n |-> 0]
                   ELSE DecimalOf(CleanBr(raw))
            r   == call.result
        IN  /\ r.raised = "none"
            /\ (d.kind = "invalid" \/ (d.kind = "num" /\ d.n <= 0)) =>
                  (r.value = <<>> /\ r.errors # <<>>)
            /\ (r.value # <<>> /\ r.errors = <<>>) =>
                  (d.kind \in {"num", "inf"} /\ d.n > 0)

\* the ledger and the outcome after request r is served alone on db
Serial(db, r, username) ==
    LET st == IF r.op = "in" THEN create_inflow(db, r.data, username)
                             ELSE create_outflow(db, r.data, username)
    IN  [db |-> atomic(db, st), outcome |-> Outcome(st)]

\* the two finished transactions left what serving them in the order a, b leaves
AsIfSerial(a, b) ==
    LET first  == Serial(InitDb, tx[a], tx[a].username)
        second == Serial(first.db, tx[b], tx[b].username)
    IN  /\ tx[a].outcome = first.outcome
        /\ tx[b].outcome = second.outcome
        /\ ingredients = second.db.ingredients

\* C9 (as claimed): when two createInflow/createOutflow calls whose reads and
\* writes interleave have both finished, the committed stock and the outcomes
\* of the two calls are those of running them one after the other in some
\* order.
C9_ConcurrentCallsSerializable ==
    (\A t \in Txs : tx[t].pc = "done") => (AsIfSerial(1, 2) \/ AsIfSerial(2, 1))

====
